---- MODULE Spec2Model ----
(***************************************************************************)
(* A model of asymptote.py: the %asy line/cell magic (AsymptoteMagic.asy), *)
(* the scoped scratch directory (TemporaryAsymptoteFile) and the renderer  *)
(* invocation (run_asy_file) with its child process and the two pipes.     *)
(*                                                                         *)
(* One behaviour is one invocation of the magic.  The arguments, the cell  *)
(* text and the behaviour of the renderer child are chosen without         *)
(* restriction from small sets.  Paths and pipe texts are sequences of     *)
(* one-character strings, so that slicing (asy_file[:-3]) and prefixes are *)
(* computed; file contents are strings.                                    *)
(***************************************************************************)
EXTENDS Integers, Sequences, FiniteSets, TLC

VARIABLES
    input,        \* the invocation: [cell, asy_file, fmt, root] (line 95, 116)
    pc,           \* position of the invocation
    cell,         \* asy's local `cell` (reassigned on line 123)
    fs,           \* regular files on disk: path -> contents
    fs0,          \* the files on disk when the invocation started (history)
    dirs,         \* directories made by mkdtemp that exist on disk
    tmp,          \* the TemporaryAsymptoteFile: [tmp_dir, asy_files, codes, made]
    inScope,      \* TRUE while the body of the `with` on line 136 runs
    destroyed,    \* TRUE once __exit__ removed tmp.tmp_dir
    asy_file,     \* run_asy_file's parameter
    img_file,     \* run_asy_file's local (line 156)
    child,        \* the renderer child process started by Popen
    stdoutPipe,   \* bytes in the child's stdout pipe, not yet read
    stderrPipe,   \* bytes in the child's stderr pipe, not yet read
    result,       \* what asy returned: a display object, or none
    shown,        \* what run_asy handed to print (line 145)
    error,        \* the exception that escaped asy, or none
    lateRefs      \* paths beneath the scratch directory used after its removal (history)

vars == <<input, pc, cell, fs, fs0, dirs, tmp, inScope, destroyed, asy_file,
          img_file, child, stdoutPipe, stderrPipe, result, shown, error, lateRefs>>

----------------------------------------------------------------------------
(* Bounds and input sets *)

\* Capacity of a pipe, in characters (65536 bytes on Linux; small here).
PipeCap == 4

\* The absent path / absent text.  An empty asy_file or root is falsy on
\* lines 121, 125 and 139, exactly as None is.
NoPath == <<>>
NoCell == "<None>"

DOT == <<".">>
SEP == <<"/">>
ASY == <<"a", "s", "y">>
SVGFmt == <<"s", "v", "g">>

\* choices=[...] of the --fmt argument
Formats ==
    { <<"p","n","g">>, <<"j","p","g">>, <<"t","i","f","f">>, <<"g","i","f">>,
      <<"x","p","m">>, <<"x","b","m">>, <<"p","b","m">>, SVGFmt }

\* Sample paths: a .asy file, a two-letter extension, no extension, a name
\* that ends in a format name, a file that is not on disk, a root path.
BarAsy  == <<"b","a","r">> \o DOT \o ASY
FigPy   == <<"s","k","e","t","c","h",".","p","y">>
Plain   == <<"d","r","a","w","i","n","g","1">>
XPng    == <<"f","i","g","u","r","e","p","n","g">>
Missing == <<"g","o","n","e">> \o DOT \o ASY
Foo     == <<"f","o","o">>

\* The files on disk before the invocation.
InitialFiles == (BarAsy :> "draw(bar);") @@ (FigPy :> "draw(sketch);")
                @@ (Plain :> "draw(drawing);") @@ (XPng :> "draw(figure);")

FileArgs  == {NoPath, BarAsy, FigPy, Plain, XPng, Missing}
RootArgs  == {NoPath, Foo}
CellTexts == {NoCell, "size(100);"}

\* Names tempfile may generate.
TmpDirs  == { <<"/","t","m","p","/","d","1">>, <<"/","t","m","p","/","d","2">> }
TmpNames == { <<"t","1">>, <<"t","2">> }

\* What the renderer child may write to its pipes, and its exit status.
OutTexts  == { <<>>, <<"o","k">>, <<"v","e","r","b","o","s","e">> }
ErrTexts  == { <<>>, <<"b","o","o","m">>, <<"b","o","o","m","!","!">> }
ExitCodes == {0, 1}

IMG == "<image bytes>"

----------------------------------------------------------------------------
(* Pure helpers *)

\* p lies beneath directory d
Beneath(p, d) ==
    /\ d # NoPath
    /\ Len(p) > Len(d)
    /\ SubSeq(p, 1, Len(d) + 1) = d \o SEP

\* (variant for C3: the existence guard of line 153 always passes)
exists_always(p, files, ds) == TRUE

\* os.path.exists
exists(p, files, ds) == p \in DOMAIN files \/ p \in ds

\* asy_file[:-3]: drops the last three characters (everything, if fewer)
DropLast3(p) == IF Len(p) <= 3 THEN <<>> ELSE SubSeq(p, 1, Len(p) - 3)

\* line 156: img_file = asy_file[:-3] + fmt
DeriveImg(p, fmt) == DropLast3(p) \o fmt

\* (variant for C4: the test of line 168 is lost, every format gives Image)
Display_raster(fmt, img) == [kind |-> "Image", filename |-> img]

\* lines 168-170: the display object for (fmt, img_file)
Display(fmt, img) ==
    IF fmt = SVGFmt THEN [kind |-> "SVG", filename |-> img]
                    ELSE [kind |-> "Image", filename |-> img]

NoResult == [kind |-> "None", filename |-> NoPath]

NoError == [type |-> "None", payload |-> <<>>]

\* (variant for C2: __init__ does not keep the message)
AsymptoteException_dropped(asy_err_msg) ==
    [type |-> "AsymptoteException", payload |-> <<>>]

\* lines 15-25: the exception keeps the message it is given
AsymptoteException(asy_err_msg) ==
    [type |-> "AsymptoteException", payload |-> asy_err_msg]

\* IOError / OSError raised by open, os.path.exists' guard, mkdtemp, mkstemp, write
IOError(what) == [type |-> "IOError", payload |-> what]

\* pipe.read() after the child has exited: everything left in the pipe
read(pipe) == pipe

\* (variant for C7: mkstemp called without dir=, the file lands elsewhere)
mkstempPath_nodir(d, name) == name \o DOT \o ASY

\* tempfile.mkstemp(suffix=".asy", dir=d): the generated path
mkstempPath(d, name) == d \o SEP \o name \o DOT \o ASY

\* (variant for C1: the directory's files are not removed)
rmtreeFiles_keep(files, d) == files

\* shutil.rmtree(d): the files that are left
rmtreeFiles(files, d) ==
    [p \in {q \in DOMAIN files : ~Beneath(q, d)} |-> files[p]]

\* shutil.rmtree(d): the directories that are left
rmtreeDirs(ds, d) == ds \ {d}

\* open(p, "w") ... write(text)
writeFile(files, p, text) == [q \in DOMAIN files \cup {p} |-> IF q = p THEN text ELSE files[q]]

NoChild == [state |-> "none", code |-> 0, outLeft |-> <<>>, errLeft |-> <<>>,
            outWritten |-> <<>>, errWritten |-> <<>>, writesImg |-> FALSE,
            fmt |-> <<>>, o |-> NoPath, src |-> NoPath]

NoTmp == [tmp_dir |-> NoPath, asy_files |-> <<>>, codes |-> <<>>, made |-> NoPath]

\* the paths among ps that lie beneath a scratch directory already removed
Late(ps) == {p \in ps : destroyed /\ Beneath(p, tmp.tmp_dir)}

Finished == pc \in {"returned", "raised"}

----------------------------------------------------------------------------
Init ==
    /\ input \in [cell : CellTexts, asy_file : FileArgs, fmt : Formats, root : RootArgs]
    /\ pc = "start"
    /\ cell = input.cell
    /\ fs = InitialFiles
    /\ fs0 = InitialFiles
    /\ dirs = {}
    /\ tmp = NoTmp
    /\ inScope = FALSE
    /\ destroyed = FALSE
    /\ asy_file = NoPath
    /\ img_file = NoPath
    /\ child = NoChild
    /\ stdoutPipe = <<>>
    /\ stderrPipe = <<>>
    /\ result = NoResult
    /\ shown = <<>>
    /\ error = NoError
    /\ lateRefs = {}

----------------------------------------------------------------------------
(* run_asy_file up to and including Popen (lines 153-161), called with path p *)
(* when the files on disk are `files`; `scoped` says whether the caller is    *)
(* inside the `with` block, where a raise first goes through __exit__.        *)
run_asy_file(p, files, scoped) ==
    /\ asy_file' = p
    /\ IF ~exists(p, files, dirs)
       THEN \* line 154
            /\ error' = IOError(p)
            /\ pc' = IF scoped THEN "exit_raising" ELSE "raised"
            /\ UNCHANGED <<img_file, child>>
       ELSE \* lines 155-161
            /\ img_file' = DeriveImg(p, input.fmt)
            /\ \E code \in ExitCodes, out \in OutTexts, err \in ErrTexts, w \in BOOLEAN :
                   child' = [state |-> "running", code |-> code,
                             outLeft |-> out, errLeft |-> err,
                             outWritten |-> <<>>, errWritten |-> <<>>,
                             writesImg |-> w,
                             fmt |-> input.fmt, o |-> DeriveImg(p, input.fmt), src |-> p]
            /\ pc' = "wait"
            /\ UNCHANGED error

(* AsymptoteMagic.asy, lines 116-140, up to the point where it waits for the  *)
(* renderer or starts building the scratch area.                              *)
asy ==
    /\ pc = "start"
    /\ UNCHANGED <<input, fs0, dirs, inScope, destroyed, stdoutPipe, stderrPipe,
                   result, shown>>
    /\ \/ \* lines 118-123: cell mode, the named source file cannot be opened
          /\ input.cell # NoCell
          /\ input.asy_file # NoPath
          /\ input.asy_file \notin DOMAIN fs
          /\ error' = IOError(input.asy_file)
          /\ pc' = "raised"
          /\ lateRefs' = lateRefs \cup Late({input.asy_file})
          /\ UNCHANGED <<cell, fs, tmp, asy_file, img_file, child>>
       \/ \* lines 118-137: cell mode
          /\ input.cell # NoCell
          /\ input.asy_file # NoPath => input.asy_file \in DOMAIN fs
          /\ LET code == IF input.asy_file # NoPath
                         THEN fs[input.asy_file] \o "\n" \o cell
                         ELSE cell
             IN  /\ cell' = code
                 /\ IF input.root # NoPath
                    THEN \* lines 127-130
                         LET root_asy == input.root \o DOT \o ASY
                             files == writeFile(fs, root_asy, code)
                         IN  /\ fs' = files
                             /\ run_asy_file(root_asy, files, FALSE)
                             /\ lateRefs' = lateRefs \cup Late({input.asy_file, root_asy})
                             /\ UNCHANGED tmp
                    ELSE \* line 136: TemporaryAsymptoteFile(cell), lines 43-44
                         /\ tmp' = [NoTmp EXCEPT !.codes = <<code>>]
                         /\ pc' = "ctor"
                         /\ lateRefs' = lateRefs \cup Late({input.asy_file})
                         /\ UNCHANGED <<fs, asy_file, img_file, child, error>>
       \/ \* lines 139-140: line mode
          /\ input.cell = NoCell
          /\ input.asy_file # NoPath
          /\ run_asy_file(input.asy_file, fs, FALSE)
          /\ lateRefs' = lateRefs \cup Late({input.asy_file})
          /\ UNCHANGED <<cell, fs, tmp>>
       \/ \* neither cell nor file: falls off the end, returns None
          /\ input.cell = NoCell
          /\ input.asy_file = NoPath
          /\ pc' = "returned"
          /\ UNCHANGED <<cell, fs, tmp, asy_file, img_file, child, error, lateRefs>>

(* TemporaryAsymptoteFile.__init__, line 41 *)
TemporaryAsymptoteFile_mkdtemp ==
    /\ pc = "ctor"
    /\ UNCHANGED <<input, cell, fs, fs0, inScope, destroyed, asy_file, img_file,
                   child, stdoutPipe, stderrPipe, result, shown, lateRefs>>
    /\ \/ \E d \in TmpDirs \ dirs :
              /\ dirs' = dirs \cup {d}
              /\ tmp' = [tmp EXCEPT !.tmp_dir = d, !.asy_files = <<>>]
              /\ pc' = "ctor_loop"
              /\ UNCHANGED error
       \/ \* mkdtemp fails: nothing was created
          /\ error' = IOError(NoPath)
          /\ pc' = "raised"
          /\ UNCHANGED <<dirs, tmp>>

(* TemporaryAsymptoteFile.__init__, lines 45-47 *)
TemporaryAsymptoteFile_mkstemp ==
    /\ pc = "ctor_loop"
    /\ tmp.codes # <<>>
    /\ UNCHANGED <<input, cell, fs0, dirs, inScope, destroyed, asy_file, img_file,
                   child, stdoutPipe, stderrPipe, result, shown, lateRefs>>
    /\ \/ \E name \in TmpNames :
              LET f == mkstempPath(tmp.tmp_dir, name)
              IN  /\ f \notin DOMAIN fs
                  /\ fs' = writeFile(fs, f, "")
                  /\ tmp' = [tmp EXCEPT !.made = f]
                  /\ pc' = "ctor_write"
                  /\ UNCHANGED error
       \/ \* mkstemp fails: the exception leaves __init__
          /\ error' = IOError(tmp.tmp_dir)
          /\ pc' = "raised"
          /\ UNCHANGED <<fs, tmp>>

(* TemporaryAsymptoteFile.__init__, lines 48-50 *)
TemporaryAsymptoteFile_write ==
    /\ pc = "ctor_write"
    /\ UNCHANGED <<input, cell, fs0, dirs, inScope, destroyed, asy_file, img_file,
                   child, stdoutPipe, stderrPipe, result, shown, lateRefs>>
    /\ \/ /\ fs' = writeFile(fs, tmp.made, Head(tmp.codes))
          /\ tmp' = [tmp EXCEPT !.asy_files = Append(@, tmp.made),
                                !.codes = Tail(@), !.made = NoPath]
          /\ pc' = "ctor_loop"
          /\ UNCHANGED error
       \/ \* write fails: the exception leaves __init__
          /\ error' = IOError(tmp.made)
          /\ pc' = "raised"
          /\ UNCHANGED <<fs, tmp>>

(* (variant for C10: the call of run_asy is dedented out of the with block,   *)
(* so __exit__ runs before run_asy_file uses the staged file)                 *)
EnterScope_dedented ==
    /\ pc = "ctor_loop"
    /\ tmp.codes = <<>>
    /\ fs' = rmtreeFiles(fs, tmp.tmp_dir)
    /\ dirs' = rmtreeDirs(dirs, tmp.tmp_dir)
    /\ destroyed' = TRUE
    /\ inScope' = FALSE
    /\ run_asy_file(tmp.asy_files[1], rmtreeFiles(fs, tmp.tmp_dir), FALSE)
    /\ lateRefs' = lateRefs \cup {tmp.asy_files[1]}
    /\ UNCHANGED <<input, cell, fs0, tmp, stdoutPipe, stderrPipe, result, shown>>

(* __enter__ and the body of the with block, lines 52-53 and 136-137 *)
EnterScope ==
    /\ pc = "ctor_loop"
    /\ tmp.codes = <<>>
    /\ inScope' = TRUE
    /\ run_asy_file(tmp.asy_files[1], fs, TRUE)
    /\ lateRefs' = lateRefs \cup Late({tmp.asy_files[1]})
    /\ UNCHANGED <<input, cell, fs, fs0, dirs, tmp, destroyed, stdoutPipe,
                   stderrPipe, result, shown>>

(* The renderer child: writes to its stdout pipe; blocks while the pipe is full *)
ChildWriteStdout ==
    /\ child.state = "running"
    /\ child.outLeft # <<>>
    /\ Len(stdoutPipe) < PipeCap
    /\ stdoutPipe' = Append(stdoutPipe, Head(child.outLeft))
    /\ child' = [child EXCEPT !.outLeft = Tail(@),
                              !.outWritten = Append(@, Head(child.outLeft))]
    /\ UNCHANGED <<input, pc, cell, fs, fs0, dirs, tmp, inScope, destroyed, asy_file,
                   img_file, stderrPipe, result, shown, error, lateRefs>>

(* The renderer child: writes to its stderr pipe; blocks while the pipe is full *)
ChildWriteStderr ==
    /\ child.state = "running"
    /\ child.errLeft # <<>>
    /\ Len(stderrPipe) < PipeCap
    /\ stderrPipe' = Append(stderrPipe, Head(child.errLeft))
    /\ child' = [child EXCEPT !.errLeft = Tail(@),
                              !.errWritten = Append(@, Head(child.errLeft))]
    /\ UNCHANGED <<input, pc, cell, fs, fs0, dirs, tmp, inScope, destroyed, asy_file,
                   img_file, stdoutPipe, result, shown, error, lateRefs>>

(* The renderer child: having written everything, it writes the file named by *)
(* -o (or not) and exits with its status.                                      *)
ChildExit ==
    /\ child.state = "running"
    /\ child.outLeft = <<>>
    /\ child.errLeft = <<>>
    /\ child' = [child EXCEPT !.state = "exited"]
    /\ fs' = IF child.writesImg THEN writeFile(fs, child.o, IMG) ELSE fs
    /\ UNCHANGED <<input, pc, cell, fs0, dirs, tmp, inScope, destroyed, asy_file,
                   img_file, stdoutPipe, stderrPipe, result, shown, error, lateRefs>>

(* run_asy_file from wait() on (lines 162-170) and run_asy (lines 144-146) *)
Wait ==
    /\ pc = "wait"
    /\ child.state = "exited"
    /\ IF child.code # 0
       THEN \* lines 163-164
            /\ error' = AsymptoteException(read(stderrPipe))
            /\ stderrPipe' = <<>>
            /\ pc' = IF inScope THEN "exit_raising" ELSE "raised"
            /\ UNCHANGED <<stdoutPipe, result, shown, lateRefs>>
       ELSE \* lines 166-170, 145-146
            /\ shown' = read(stdoutPipe)
            /\ stdoutPipe' = <<>>
            /\ result' = Display(input.fmt, img_file)
            /\ lateRefs' = lateRefs \cup Late({img_file})
            /\ pc' = IF inScope THEN "exit_returning" ELSE "returned"
            /\ UNCHANGED <<stderrPipe, error>>
    /\ UNCHANGED <<input, cell, fs, fs0, dirs, tmp, inScope, destroyed, asy_file,
                   img_file, child>>

(* TemporaryAsymptoteFile.__exit__, lines 55-56, and leaving asy *)
TemporaryAsymptoteFile_exit ==
    /\ pc \in {"exit_returning", "exit_raising"}
    /\ fs' = rmtreeFiles(fs, tmp.tmp_dir)
    /\ dirs' = rmtreeDirs(dirs, tmp.tmp_dir)
    /\ destroyed' = TRUE
    /\ inScope' = FALSE
    /\ pc' = IF pc = "exit_returning" THEN "returned" ELSE "raised"
    /\ UNCHANGED <<input, cell, fs0, tmp, asy_file, img_file, child, stdoutPipe,
                   stderrPipe, result, shown, error, lateRefs>>

Next ==
    \/ asy
    \/ TemporaryAsymptoteFile_mkdtemp
    \/ TemporaryAsymptoteFile_mkstemp
    \/ TemporaryAsymptoteFile_write
    \/ EnterScope
    \/ ChildWriteStdout
    \/ ChildWriteStderr
    \/ ChildExit
    \/ Wait
    \/ TemporaryAsymptoteFile_exit

Spec == Init /\ [][Next]_vars

\* The child and the waiting parent run whenever they can.
FairSpec == Init /\ [][Next]_vars /\ WF_vars(Next)

----------------------------------------------------------------------------
(* Vocabulary of the properties *)

CellMode == input.cell # NoCell
LineMode == input.cell = NoCell /\ input.asy_file # NoPath
NoRoot   == input.root = NoPath

\* the invocation staged its source in a scratch directory and entered the
\* with block (run_asy was called on the staged file)
ScopeEntered == CellMode /\ NoRoot /\ asy_file # NoPath

ScratchGone ==
    /\ tmp.tmp_dir \notin dirs
    /\ \A p \in DOMAIN fs : ~Beneath(p, tmp.tmp_dir)

\* index of the dot that starts the extension of p's last component, 0 if none
\* (a leading dot of the component starts no extension), as os.path.splitext
ExtDot(p) ==
    LET dots == {i \in 2..Len(p) :
                    /\ p[i] = "."
                    /\ p[i-1] # "/"
                    /\ \A j \in i..Len(p) : p[j] # "/"}
    IN  IF dots = {} THEN 0 ELSE CHOOSE i \in dots : \A j \in dots : j <= i

\* p with its extension replaced by fmt
ReplaceExt(p, fmt) ==
    (IF ExtDot(p) = 0 THEN p ELSE SubSeq(p, 1, ExtDot(p) - 1)) \o DOT \o fmt

\* the source text the invocation supplies
SuppliedText ==
    IF input.cell = NoCell THEN fs0[input.asy_file]
    ELSE IF input.asy_file = NoPath THEN input.cell
    ELSE fs0[input.asy_file] \o "\n" \o input.cell

----------------------------------------------------------------------------
(* C1: a cell invocation without root path that entered the scoped block has, *)
(* once it has finished (display object returned, or renderer error raised),  *)
(* neither its scratch directory nor any file beneath it left on disk.        *)
C1_ScratchRemoved ==
    (Finished /\ ScopeEntered) => ScratchGone

C1_Witness ==
    /\ pc = "raised" /\ ScopeEntered
    /\ error.type = "AsymptoteException"
    /\ child.writesImg
    /\ ScratchGone

(* C2: when the renderer child has exited with a nonzero status and wait()    *)
(* has returned, the call is failing with an AsymptoteException whose payload *)
(* is exactly what the child wrote to stderr, and there is no display object. *)
C2_RendererError ==
    (child.state = "exited" /\ child.code # 0 /\ pc # "wait") =>
        /\ pc \in {"exit_raising", "raised"}
        /\ error.type = "AsymptoteException"
        /\ error.payload = child.errWritten
        /\ result = NoResult

C2_Witness ==
    /\ pc = "raised"
    /\ child.code # 0
    /\ error.type = "AsymptoteException"
    /\ error.payload = <<"b","o","o","m">>
    /\ result = NoResult

(* C3: when the invocation names a source file that is not on disk, no        *)
(* renderer child is ever spawned, no scratch area is started, and the        *)
(* invocation ends by raising an IOError that names the file.                 *)
C3_SourceNotFound ==
    (input.asy_file # NoPath /\ input.asy_file \notin DOMAIN fs0) =>
        /\ child.state = "none"
        /\ pc \in {"start", "raised"}
        /\ pc = "raised" => error = [type |-> "IOError", payload |-> input.asy_file]

C3_Witness ==
    /\ LineMode
    /\ input.asy_file \notin DOMAIN fs0
    /\ pc = "raised"
    /\ error.type = "IOError"
    /\ child.state = "none"

(* C4: when the renderer has exited with status 0 and wait() has returned,    *)
(* the pipeline is returning a display object whose filename is the path      *)
(* given to the renderer with -o; it is an SVG exactly when the format is     *)
(* svg and an Image for every other format.                                   *)
C4_DisplayObject ==
    (child.state = "exited" /\ child.code = 0 /\ pc # "wait") =>
        /\ pc \in {"exit_returning", "returned"}
        /\ error = NoError
        /\ result.filename = child.o
        /\ result.kind = "SVG" <=> input.fmt = SVGFmt
        /\ result.kind = "Image" <=> input.fmt # SVGFmt

C4_Witness ==
    /\ pc = "returned"
    /\ input.fmt = SVGFmt
    /\ result = [kind |-> "SVG", filename |-> child.o]
    /\ child.o # NoPath

(* C5: after a successful invocation with a root path R and format F, with a  *)
(* renderer that wrote the path given with -o, R.asy and R.F both exist and   *)
(* R.asy holds the supplied source text (cell alone, cell with an existing    *)
(* source file, or an existing source file alone).                            *)
C5_RootLayout ==
    (pc = "returned" /\ input.root # NoPath /\ result # NoResult /\ child.writesImg) =>
        /\ input.root \o DOT \o ASY \in DOMAIN fs
        /\ input.root \o DOT \o input.fmt \in DOMAIN fs
        /\ fs[input.root \o DOT \o ASY] = SuppliedText

(* C6: whenever run_asy_file has started the renderer (it is never given an   *)
(* explicit output path), the output path is the source path with its         *)
(* extension replaced by the format, and differs from the source path.        *)
C6_DerivedPath ==
    child.state # "none" =>
        /\ child.o = ReplaceExt(child.src, input.fmt)
        /\ child.o # child.src

C8_PartialCleanup ==
    (pc = "raised" /\ tmp.tmp_dir # NoPath /\ asy_file = NoPath) => ScratchGone

(* C9: once run_asy_file waits for the renderer child, it eventually returns  *)
(* or raises, and what it captured is everything the child had to write.      *)
C9_WaitReturns ==
    /\ (pc = "wait") ~> (pc # "wait")
    /\ [](pc \notin {"start", "wait"} /\ child.state # "none" =>
            /\ child.outLeft = <<>> /\ child.errLeft = <<>>
            /\ child.code = 0 => shown = child.outWritten
            /\ child.code # 0 => error.payload = child.errWritten)

(* C10, as stated: once the scratch directory is destroyed, no step has used  *)
(* a path beneath it since, and the display object handed back does not       *)
(* refer to a path beneath it.                                                *)
C10_NoDanglingPath ==
    destroyed =>
        /\ lateRefs = {}
        /\ ~Beneath(result.filename, tmp.tmp_dir)

(* C10, amended: once the scratch directory is destroyed, no step has used a  *)
(* path beneath it since, and the display object handed back does not refer   *)
(* to a member file (asy_files) of the scratch area; its filename is the      *)
(* image path handed to the renderer.                                         *)
C10_NoLateUse ==
    /\ lateRefs = {}
    /\ destroyed =>
          /\ \A i \in 1..Len(tmp.asy_files) : result.filename # tmp.asy_files[i]
          /\ result # NoResult => result.filename = child.o

C10_Witness ==
    /\ destroyed
    /\ pc = "returned"
    /\ result # NoResult
    /\ Beneath(result.filename, tmp.tmp_dir)
    /\ result.filename \notin DOMAIN fs

====
